---------------------------- MODULE Spec2Model ----------------------------
(***************************************************************************)
(* Model of the Nifty iron-condor signal bot: the strategy evaluator       *)
(* (strategy.py), the single-slot position store, the premium monitor and  *)
(* the entry / exit handlers (main.py).                                    *)
(*                                                                         *)
(* Units.  Python floats that carry money or volatility are modelled as    *)
(* integers in hundredths: a premium of 45.00 is 4500, a VIX of 18.0 is    *)
(* 1800, a put-call ratio of 1.3 is 130.  round(x, 2) of such a value is   *)
(* the nearest hundredth.  Strikes and the spot are whole index points.    *)
(* Time of day is in minutes since midnight (15:15 is 915).                *)
(***************************************************************************)
EXTENDS Integers, Sequences, FiniteSets, TLC

VARIABLES
    chain,      \* the snapshot under evaluation, <<c>> (the handlers fetch theirs and keep none)
    vix,        \* the volatility under evaluation (hundredths)
    now,        \* time of day at which the last exit check decided (minutes since midnight)
    store,      \* content of POSITION_FILE
    result,     \* what the last evaluation / store call returned
    out,        \* what the last invocation gave to the outside: notifications, log, exception
    hist        \* the store calls made so far, oldest first: what was called, what it gave

vars == <<chain, vix, now, store, result, out, hist>>

-----------------------------------------------------------------------------
(* strategy.py: constants *)

NIFTY_STEP      == 50
SPREAD_WIDTH    == 100
OTM_OFFSET      == 1
MIN_VIX         == 1000
MAX_VIX         == 1800
MIN_NET_PREMIUM == 4000
MIN_WING_PREM   == 1500
LOT_SIZE        == 50
\* main.py run_exit: now.replace(hour=15, minute=15)
CUTOFF          == 915

-----------------------------------------------------------------------------
(* Python built-ins the code relies on *)

Abs(x) == IF x < 0 THEN -x ELSE x

Max0(x) == IF x > 0 THEN x ELSE 0

\* int(n / d) for n >= 0, d > 0: the fraction dropped
MutRoundDown(n, d) == n \div d

\* round(n / d) for d > 0: nearest integer, a tie going to the even neighbour
RoundHalfEven(n, d) ==
    LET q == n \div d
        r == n % d
    IN  IF 2 * r < d THEN q
        ELSE IF 2 * r > d THEN q + 1
        ELSE IF q % 2 = 0 THEN q ELSE q + 1

\* sorted(list of numbers): insertion of each element into an ascending list
RECURSIVE InsertSorted(_, _)
InsertSorted(x, s) ==
    IF s = <<>> THEN <<x>>
    ELSE IF x < Head(s) THEN <<x>> \o s
    ELSE <<Head(s)>> \o InsertSorted(x, Tail(s))

RECURSIVE SortedSeq(_)
SortedSeq(s) ==
    IF s = <<>> THEN <<>>
    ELSE InsertSorted(s[Len(s)], SortedSeq(SubSeq(s, 1, Len(s) - 1)))

\* list.index(x): position of the first element equal to x (0-based), x known to occur
IndexOf(s, x) == (CHOOSE i \in 1..Len(s) : s[i] = x /\ \A j \in 1..(i - 1) : s[j] # x) - 1

StrikesOf(strikes) == [i \in 1..Len(strikes) |-> strikes[i].strike]

\* sum(...) of the numbers s[i], s[i+1], ...
RECURSIVE SumOver(_, _)
SumOver(s, i) == IF i > Len(s) THEN 0 ELSE s[i] + SumOver(s, i + 1)

-----------------------------------------------------------------------------
(* strategy.py: helpers *)

MutRoundToStrike(price) == (price \div NIFTY_STEP) * NIFTY_STEP

round_to_strike(price) == RoundHalfEven(price, NIFTY_STEP) * NIFTY_STEP

\* min(available, key=|x - spot|): the first element with the smallest key
\* (keys holds the key of each element; the result is the element's position)
RECURSIVE ArgMinFirst(_, _, _)
ArgMinFirst(keys, i, best) ==
    IF i > Len(keys) THEN best
    ELSE ArgMinFirst(keys, i + 1, IF keys[i] < keys[best] THEN i ELSE best)

find_atm(spot, strikes) ==
    LET available == StrikesOf(strikes)
        keys == [i \in 1..Len(available) |-> Abs(available[i] - spot)]
    IN  available[ArgMinFirst(keys, 2, 1)]

LossAt(strikes, target) ==
    LET ce_loss == [i \in 1..Len(strikes) |-> Max0(target - strikes[i].strike) * strikes[i].ce_oi]
        pe_loss == [i \in 1..Len(strikes) |-> Max0(strikes[i].strike - target) * strikes[i].pe_oi]
    IN  SumOver(ce_loss, 1) + SumOver(pe_loss, 1)

\* a scan that keeps the last strike with the smallest loss
RECURSIVE MutMaxPainScan(_, _, _)
MutMaxPainScan(strikes, i, best) ==
    IF i > Len(strikes) THEN best
    ELSE MutMaxPainScan(strikes, i + 1,
            IF LossAt(strikes, strikes[i].strike) <= LossAt(strikes, best)
            THEN strikes[i].strike ELSE best)

MutFindMaxPain(strikes) == MutMaxPainScan(strikes, 2, strikes[1].strike)

\* min(losses, key=losses.get) scans the dict in insertion order and keeps the
\* first key with the smallest loss.
find_max_pain(strikes) ==
    LET all_strikes == StrikesOf(strikes)
        losses == [i \in 1..Len(all_strikes) |-> LossAt(strikes, all_strikes[i])]
    IN  all_strikes[ArgMinFirst(losses, 2, 1)]

\* max(strikes, key=oi): the first element with the largest key
\* (keys holds the key of each element; the result is the element's position)
RECURSIVE ArgMaxFirst(_, _, _)
ArgMaxFirst(keys, i, best) ==
    IF i > Len(keys) THEN best
    ELSE ArgMaxFirst(keys, i + 1, IF keys[i] > keys[best] THEN i ELSE best)

find_oi_walls(strikes) ==
    LET ce_oi == [i \in 1..Len(strikes) |-> strikes[i].ce_oi]
        pe_oi == [i \in 1..Len(strikes) |-> strikes[i].pe_oi]
    IN  [ce_wall |-> strikes[ArgMaxFirst(ce_oi, 2, 1)].strike,
         pe_wall |-> strikes[ArgMaxFirst(pe_oi, 2, 1)].strike]

\* get_strike_data(...).get(field, 0): the field of the first quote at that
\* strike, 0 when the strike is not in the ladder
HasStrike(strikes, strike) == \E i \in 1..Len(strikes) : strikes[i].strike = strike

get_strike_data(strikes, strike) ==
    strikes[CHOOSE i \in 1..Len(strikes) :
                /\ strikes[i].strike = strike
                /\ \A j \in 1..(i - 1) : strikes[j].strike # strike]

\* the call premium read from the put side
MutCePrem(strikes, strike) ==
    IF HasStrike(strikes, strike) THEN get_strike_data(strikes, strike).pe_ltp ELSE 0

CePrem(strikes, strike) ==
    IF HasStrike(strikes, strike) THEN get_strike_data(strikes, strike).ce_ltp ELSE 0

PePrem(strikes, strike) ==
    IF HasStrike(strikes, strike) THEN get_strike_data(strikes, strike).pe_ltp ELSE 0

\* the premium tiers tested from the lowest up
MutScoreSignal(v, pcr, net_premium, ce_wall, pe_wall, sell_ce, sell_pe) ==
    LET vixPts == IF 1200 <= v /\ v <= 1600 THEN 30
                  ELSE IF (1000 <= v /\ v < 1200) \/ (1600 < v /\ v <= 1800) THEN 15
                  ELSE 0
        pcrPts == IF 90 <= pcr /\ pcr <= 130 THEN 20
                  ELSE IF (70 <= pcr /\ pcr < 90) \/ (130 < pcr /\ pcr <= 150) THEN 10
                  ELSE 0
        premPts == IF net_premium >= 4000 THEN 10
                   ELSE IF net_premium >= 5500 THEN 20
                   ELSE IF net_premium >= 8000 THEN 25
                   ELSE 0
        cePts == IF sell_ce <= ce_wall THEN 15 ELSE 0
        pePts == IF sell_pe >= pe_wall THEN 10 ELSE 0
        score == vixPts + pcrPts + premPts + cePts + pePts
    IN  [score |-> score,
         grade |-> IF score >= 70 THEN "A" ELSE IF score >= 50 THEN "B" ELSE "C"]

score_signal(v, pcr, net_premium, ce_wall, pe_wall, sell_ce, sell_pe) ==
    LET vixPts == IF 1200 <= v /\ v <= 1600 THEN 30
                  ELSE IF (1000 <= v /\ v < 1200) \/ (1600 < v /\ v <= 1800) THEN 15
                  ELSE 0
        pcrPts == IF 90 <= pcr /\ pcr <= 130 THEN 20
                  ELSE IF (70 <= pcr /\ pcr < 90) \/ (130 < pcr /\ pcr <= 150) THEN 10
                  ELSE 0
        premPts == IF net_premium >= 8000 THEN 25
                   ELSE IF net_premium >= 5500 THEN 20
                   ELSE IF net_premium >= 4000 THEN 10
                   ELSE 0
        cePts == IF sell_ce <= ce_wall THEN 15 ELSE 0
        pePts == IF sell_pe >= pe_wall THEN 10 ELSE 0
        score == vixPts + pcrPts + premPts + cePts + pePts
    IN  [score |-> score,
         grade |-> IF score >= 70 THEN "A" ELSE IF score >= 50 THEN "B" ELSE "C"]

\* nse_data.py get_pcr: round(pe / ce, 2) if ce else 1.0
get_pcr(strikes) ==
    LET ce == SumOver([i \in 1..Len(strikes) |-> strikes[i].ce_oi], 1)
        pe == SumOver([i \in 1..Len(strikes) |-> strikes[i].pe_oi], 1)
    IN  IF ce # 0 THEN RoundHalfEven(100 * pe, ce) ELSE 100

-----------------------------------------------------------------------------
(* strategy.py: build_iron_condor *)

Skip(reason)  == [kind |-> "skip",  reason |-> reason, signal |-> <<>>]
Raise(error)  == [kind |-> "raise", reason |-> error,  signal |-> <<>>]
Accept(sig)   == [kind |-> "signal", reason |-> "",    signal |-> <<sig>>]

MutPremiumGate(sell_ce_prem, sell_pe_prem, net_premium) ==
    IF sell_ce_prem < MIN_WING_PREM THEN "ce_leg_premium_too_low"
    ELSE IF sell_pe_prem < MIN_WING_PREM THEN "pe_leg_premium_too_low"
    ELSE ""

\* the wing-quality and net-premium gates: the skip reason, "" when they pass
PremiumGate(sell_ce_prem, sell_pe_prem, net_premium) ==
    IF sell_ce_prem < MIN_WING_PREM THEN "ce_leg_premium_too_low"
    ELSE IF sell_pe_prem < MIN_WING_PREM THEN "pe_leg_premium_too_low"
    ELSE IF net_premium < MIN_NET_PREMIUM THEN "net_premium_too_low"
    ELSE ""

\* The part of build_iron_condor after the strike-availability gate: the
\* four legs, their premiums, the wing and net-premium gates, the Signal.
BuildLegs(c, v, pcr, available, atm_idx) ==
    LET strikes        == c.strikes
        sell_ce_strike == available[atm_idx + OTM_OFFSET + 1]
        sell_pe_strike == available[atm_idx - OTM_OFFSET + 1]
        buy_ce_strike  == round_to_strike(sell_ce_strike + SPREAD_WIDTH)
        buy_pe_strike  == round_to_strike(sell_pe_strike - SPREAD_WIDTH)
        sell_ce_prem   == CePrem(strikes, sell_ce_strike)
        buy_ce_prem    == CePrem(strikes, buy_ce_strike)
        sell_pe_prem   == PePrem(strikes, sell_pe_strike)
        buy_pe_prem    == PePrem(strikes, buy_pe_strike)
        net_premium    == (sell_ce_prem - buy_ce_prem) + (sell_pe_prem - buy_pe_prem)
        walls          == find_oi_walls(strikes)
        sg             == score_signal(v, pcr, net_premium, walls.ce_wall, walls.pe_wall,
                                       sell_ce_strike, sell_pe_strike)
    IN  IF PremiumGate(sell_ce_prem, sell_pe_prem, net_premium) # ""
        THEN Skip(PremiumGate(sell_ce_prem, sell_pe_prem, net_premium))
        ELSE Accept([spot |-> c.spot, vix |-> v, pcr |-> pcr, expiry |-> c.expiry,
                     sell_ce_strike |-> sell_ce_strike, buy_ce_strike |-> buy_ce_strike,
                     sell_pe_strike |-> sell_pe_strike, buy_pe_strike |-> buy_pe_strike,
                     sell_ce_prem |-> sell_ce_prem, buy_ce_prem |-> buy_ce_prem,
                     sell_pe_prem |-> sell_pe_prem, buy_pe_prem |-> buy_pe_prem,
                     net_premium |-> net_premium, spread_width |-> SPREAD_WIDTH,
                     max_profit |-> net_premium * LOT_SIZE,
                     max_loss |-> (SPREAD_WIDTH * 100 - net_premium) * LOT_SIZE,
                     target_exit |-> RoundHalfEven(net_premium * 40, 100),
                     stop_loss |-> net_premium * 2,
                     max_pain |-> find_max_pain(strikes),
                     ce_wall |-> walls.ce_wall, pe_wall |-> walls.pe_wall,
                     signal_score |-> sg.score, signal_grade |-> sg.grade])

MutVixGate(v) ==
    IF v >= MAX_VIX THEN "vix_too_high"
    ELSE IF v < MIN_VIX THEN "vix_too_low"
    ELSE ""

\* the volatility gate: the skip reason, "" when the gate lets the snapshot pass
VixGate(v) ==
    IF v > MAX_VIX THEN "vix_too_high"
    ELSE IF v < MIN_VIX THEN "vix_too_low"
    ELSE ""

\* the strike-availability gate (atm_idx is 0-based, n the ladder's length)
StrikeGate(atm_idx, n) == atm_idx < 2 \/ atm_idx > n - 3

build_iron_condor(c, v, pcr) ==
    IF VixGate(v) # "" THEN Skip(VixGate(v))
    \* find_atm: min() of an empty list raises ValueError
    ELSE IF c.strikes = <<>> THEN Raise("ValueError")
    ELSE LET atm       == find_atm(c.spot, c.strikes)
             available == SortedSeq(StrikesOf(c.strikes))
             atm_idx   == IndexOf(available, atm)
         IN  IF StrikeGate(atm_idx, Len(available))
             THEN Skip("not_enough_strikes")
             ELSE BuildLegs(c, v, pcr, available, atm_idx)

-----------------------------------------------------------------------------
(* main.py: the position store (POSITION_FILE) *)

\* What the file can hold.  "garbage" is content json.load rejects, such as
\* the file open(POSITION_FILE, "w") has truncated and json.dump has not yet
\* (fully) written when the process is killed; EmptyDoc is the JSON text {},
\* PartialDoc a JSON object that lacks fields of a position.
Missing    == [kind |-> "missing"]
Garbage    == [kind |-> "garbage"]
Json(doc)  == [kind |-> "json", doc |-> doc]
EmptyDoc   == [k \in {} |-> 0]
PartialDoc == [sell_ce_strike |-> 24050]

PositionKeys == {"sell_ce_strike", "buy_ce_strike", "sell_pe_strike", "buy_pe_strike",
                 "net_premium", "target_exit", "stop_loss", "expiry"}

\* target_exit and stop_loss stored under each other's key
MutPositionDoc(sig, expiry) ==
    [sell_ce_strike |-> sig.sell_ce_strike,
     buy_ce_strike  |-> sig.buy_ce_strike,
     sell_pe_strike |-> sig.sell_pe_strike,
     buy_pe_strike  |-> sig.buy_pe_strike,
     net_premium    |-> sig.net_premium,
     target_exit    |-> sig.stop_loss,
     stop_loss      |-> sig.target_exit,
     expiry         |-> expiry]

\* the dict save_position dumps; a number survives json.dump / json.load unchanged
PositionDoc(sig, expiry) ==
    [sell_ce_strike |-> sig.sell_ce_strike,
     buy_ce_strike  |-> sig.buy_ce_strike,
     sell_pe_strike |-> sig.sell_pe_strike,
     buy_pe_strike  |-> sig.buy_pe_strike,
     net_premium    |-> sig.net_premium,
     target_exit    |-> sig.target_exit,
     stop_loss      |-> sig.stop_loss,
     expiry         |-> expiry]

MutSavePosition(st, sig, expiry) ==
    IF st.kind = "json" /\ DOMAIN st.doc = PositionKeys THEN st
    ELSE Json(PositionDoc(sig, expiry))

\* open(..., "w") replaces whatever the file held
save_position(st, sig, expiry) == Json(PositionDoc(sig, expiry))

Returned(v)  == [raised |-> "", value |-> v]
Thrown(e)    == [raised |-> e,  value |-> <<>>]

\* None is <<>>, a loaded dict d is <<d>>
load_position(st) ==
    IF st.kind = "missing" THEN Returned(<<>>)
    ELSE IF st.kind = "garbage" THEN Thrown("JSONDecodeError")
    ELSE Returned(<<st.doc>>)

\* a clear that empties the file and leaves it in place
MutClearTruncate(st) == [store |-> Garbage, raised |-> ""]

\* a clear that removes nothing
MutClearNoop(st) == [store |-> st, raised |-> ""]

MutClearPosition(st) ==
    IF st.kind = "missing" THEN [store |-> st, raised |-> "FileNotFoundError"]
    ELSE [store |-> Missing, raised |-> ""]

\* os.remove, a FileNotFoundError swallowed
clear_position(st) ==
    IF st.kind = "missing" THEN [store |-> st, raised |-> ""]
    ELSE [store |-> Missing, raised |-> ""]

\* Python's "not pos": None and the empty dict are falsy
Falsy(loaded) == loaded = <<>> \/ DOMAIN loaded[1] = {}

-----------------------------------------------------------------------------
(* main.py: the monitor *)

\* ltp(strike, side) of get_current_premium
Ltp(strikes, strike, side) ==
    IF \E i \in 1..Len(strikes) : strikes[i].strike = strike
    THEN LET s == strikes[CHOOSE i \in 1..Len(strikes) :
                             /\ strikes[i].strike = strike
                             /\ \A j \in 1..(i - 1) : strikes[j].strike # strike]
         IN  IF side = "ce" THEN s.ce_ltp ELSE s.pe_ltp
    ELSE 0

MutCurrentPremium(c, pos) ==
    LET sc == Ltp(c.strikes, pos.sell_ce_strike, "ce")
        sp == Ltp(c.strikes, pos.sell_pe_strike, "pe")
    IN  sc + sp

\* pos is a dict holding the four strikes
get_current_premium(c, pos) ==
    LET sc == Ltp(c.strikes, pos.sell_ce_strike, "ce")
        bc == Ltp(c.strikes, pos.buy_ce_strike,  "ce")
        sp == Ltp(c.strikes, pos.sell_pe_strike, "pe")
        bp == Ltp(c.strikes, pos.buy_pe_strike,  "pe")
    IN  (sc - bc) + (sp - bp)

\* the target comparison turned round
MutExitReasonFlipped(t, current_premium, pos) ==
    IF t >= CUTOFF THEN "time_based_exit"
    ELSE IF current_premium >= pos.target_exit THEN "target_hit"
    ELSE IF current_premium >= pos.stop_loss THEN "stop_loss_hit"
    ELSE ""

MutExitReason(t, current_premium, pos) ==
    IF current_premium <= pos.target_exit THEN "target_hit"
    ELSE IF current_premium >= pos.stop_loss THEN "stop_loss_hit"
    ELSE IF t >= CUTOFF THEN "time_based_exit"
    ELSE ""

\* the if / elif chain of run_exit; "" is exit_reason = None
ExitReason(t, current_premium, pos) ==
    IF t >= CUTOFF THEN "time_based_exit"
    ELSE IF current_premium <= pos.target_exit THEN "target_hit"
    ELSE IF current_premium >= pos.stop_loss THEN "stop_loss_hit"
    ELSE ""

-----------------------------------------------------------------------------
(* main.py: run_entry and run_exit *)

\* What an invocation hands to the outside: ping (test_telegram's message was
\* sent), events (the payloads given to send_entry_signal, send_skip_signal,
\* send_exit_signal, send_error), log (the last line logged or printed after
\* the mode banner, "" when there is none), raised (the exception that left
\* the handler, "" when it returned), and for an exit check the premium and
\* the exit_reason it computed.
Out(mode, ping, events, log, raised) ==
    [mode |-> mode, ping |-> ping, events |-> events, log |-> log, raised |-> raised,
     current_premium |-> 0, exit_reason |-> ""]

Idle == Out("idle", FALSE, <<>>, "", "")

NotRun == [kind |-> "none", reason |-> "", signal |-> <<>>]

\* run_entry(dry_run) with test_telegram() = tg_ok, get_option_chain() = c
\* (<<>> is None) and get_vix() = v; the new file content and the hand-over
run_entry(st, dry_run, tg_ok, c, v) ==
    LET mode == IF dry_run THEN "dry_run" ELSE "entry"
    IN  IF ~tg_ok
        THEN [store |-> st, result |-> NotRun,
              out |-> Out(mode, FALSE, <<>>, "error_telegram_not_working", "")]
        ELSE IF c = <<>>
        THEN [store |-> st, result |-> NotRun,
              out |-> Out(mode, TRUE, <<[type |-> "error", msg |-> "all_data_sources_failed"]>>,
                          "error_all_data_sources_failed", "")]
        ELSE LET r == build_iron_condor(c[1], v, get_pcr(c[1].strikes))
             IN  IF r.kind = "raise"
                 THEN [store |-> st, result |-> r, out |-> Out(mode, TRUE, <<>>, "", r.reason)]
                 ELSE IF dry_run
                 THEN [store |-> st, result |-> r,
                       out |-> Out(mode, TRUE, <<>>,
                                   IF r.kind = "signal" THEN "printed_signal"
                                                        ELSE "printed_no_signal", "")]
                 ELSE IF r.kind = "signal"
                 THEN [store |-> save_position(st, r.signal[1], c[1].expiry), result |-> r,
                       out |-> Out(mode, TRUE, <<[type |-> "entry", signal |-> r.signal[1]]>>,
                                   "entry_signal_sent", "")]
                 ELSE [store |-> st, result |-> r,
                       out |-> Out(mode, TRUE,
                                   <<[type |-> "skip", reason |-> r.reason,
                                      spot |-> c[1].spot, vix |-> v]>>,
                                   "no_signal_today", "")]

\* run_exit() at time of day t with get_option_chain() = c
run_exit(st, c, t) ==
    LET ld == load_position(st)
    IN  IF ld.raised # ""
        THEN [store |-> st, result |-> ld,
              out |-> Out("exit", FALSE, <<>>, "", ld.raised)]
        ELSE IF Falsy(ld.value)
        THEN [store |-> st, result |-> ld,
              out |-> Out("exit", FALSE, <<>>, "no_open_position", "")]
        ELSE IF c = <<>>
        THEN [store |-> st, result |-> ld,
              out |-> Out("exit", FALSE, <<>>, "", "")]
        \* get_current_premium and the log line index pos by these keys
        ELSE IF ~({"sell_ce_strike", "buy_ce_strike", "sell_pe_strike", "buy_pe_strike",
                   "target_exit", "stop_loss"} \subseteq DOMAIN ld.value[1])
        THEN [store |-> st, result |-> ld,
              out |-> Out("exit", FALSE, <<>>, "", "KeyError")]
        ELSE LET pos    == ld.value[1]
                 cur    == get_current_premium(c[1], pos)
                 reason == ExitReason(t, cur, pos)
                 o      == [Out("exit", FALSE, <<>>, "premium_now", "")
                               EXCEPT !.current_premium = cur, !.exit_reason = reason]
             IN  \* send_exit_signal reads sig.net_premium
                 IF reason # "" /\ "net_premium" \notin DOMAIN pos
                 THEN [store |-> st, result |-> ld,
                       out |-> [o EXCEPT !.raised = "AttributeError"]]
                 ELSE IF reason # ""
                 THEN [store |-> clear_position(st).store, result |-> ld,
                       out |-> [o EXCEPT !.events =
                                   <<[type |-> "exit", reason |-> reason,
                                      current_premium |-> cur, position |-> pos]>>]]
                 ELSE [store |-> st, result |-> ld, out |-> o]

-----------------------------------------------------------------------------
(* What the provider can hand over *)

LoQuote == [ce_ltp |-> 4005, pe_ltp |-> 4200, ce_oi |-> 1, pe_oi |-> 2]
HiQuote == [ce_ltp |-> 9000, pe_ltp |-> 9500, ce_oi |-> 1, pe_oi |-> 2]

QuoteAt(k, q) ==
    [strike |-> k, ce_ltp |-> q.ce_ltp, pe_ltp |-> q.pe_ltp, ce_oi |-> q.ce_oi, pe_oi |-> q.pe_oi]

\* every snapshot over one of the ladders (ascending strike lists) whose
\* quotes are each one of the given kinds
ChainsOver(ladders, kinds, spots, expiries) ==
    { [spot |-> sp, expiry |-> e,
       strikes |-> [i \in 1..Len(L) |-> QuoteAt(L[i], f[i])]] :
        <<L, f>> \in UNION { {L} \X [1..Len(L) -> kinds] : L \in ladders },
        sp \in spots, e \in expiries }

\* get_option_chain returns a parsed chain only with more than 5 strikes and
\* a synthetic one with 21
LiveLadders == { <<23850, 23900, 23950, 24000, 24050, 24100>> }
LiveSpots   == {23950, 24010}
LiveChains  == ChainsOver(LiveLadders, {LoQuote, HiQuote}, LiveSpots, {"26-NOV-2026"})
LiveVix     == {1400, 1850}
LiveTimes   == {CUTOFF - 1, CUTOFF}

\* what POSITION_FILE can hold when the program starts
InitialSlots == {Missing, Garbage, Json(EmptyDoc), Json(PartialDoc)}

EntryInputs ==
    {[tg_ok |-> FALSE, chain |-> <<>>, vix |-> 1400],
     [tg_ok |-> TRUE,  chain |-> <<>>, vix |-> 1400]}
    \cup {[tg_ok |-> TRUE, chain |-> <<c>>, vix |-> v] : c \in LiveChains, v \in LiveVix}

-----------------------------------------------------------------------------
(* The scheduled invocations: non-overlapping runs of "entry", "test" and "exit" *)

Init ==
    /\ chain = <<>>
    /\ vix = 0
    /\ now = 0
    /\ store \in InitialSlots
    /\ result = NotRun
    /\ out = Idle
    /\ hist = <<>>

RunEntry ==
    \E dry_run \in BOOLEAN, inp \in EntryInputs :
        LET r == run_entry(store, dry_run, inp.tg_ok, inp.chain, inp.vix)
        IN  /\ store' = r.store
            /\ result' = r.result
            /\ out' = r.out
            /\ now' = 0
            /\ UNCHANGED <<chain, vix, hist>>

RunExit ==
    \E c \in {<<>>} \cup {<<x>> : x \in LiveChains}, t \in LiveTimes :
        LET r == run_exit(store, c, t)
        IN  /\ store' = r.store
            /\ result' = r.result
            /\ out' = r.out
            /\ now' = IF r.out.log = "premium_now" THEN t ELSE 0
            /\ UNCHANGED <<chain, vix, hist>>

Next == RunEntry \/ RunExit

Spec == Init /\ [][Next]_vars

-----------------------------------------------------------------------------
(* The evaluator on its own: build_iron_condor applied to a snapshot, and   *)
(* the exit check run on the position saved for the Signal against that     *)
(* same snapshot.                                                           *)

MaxLadder == 5

EvalStrikes == {23900, 24000, 24010, 24025, 24050, 24075, 24100, 24200}

\* the ascending list of a set of strikes
RECURSIVE Ascending(_)
Ascending(S) ==
    IF S = {} THEN <<>>
    ELSE LET m == CHOOSE x \in S : \A y \in S : x <= y
         IN  <<m>> \o Ascending(S \ {m})

EvalLadders == { Ascending(S) : S \in { T \in SUBSET EvalStrikes : Cardinality(T) <= MaxLadder } }

ThinQuote == [ce_ltp |-> 1000, pe_ltp |-> 1200, ce_oi |-> 1, pe_oi |-> 2]
RichQuote == [ce_ltp |-> 4505, pe_ltp |-> 4800, ce_oi |-> 2, pe_oi |-> 1]
FairQuote == [ce_ltp |-> 4500, pe_ltp |-> 4803, ce_oi |-> 2, pe_oi |-> 2]

EvalChains == ChainsOver(EvalLadders, {ThinQuote, RichQuote, FairQuote}, {24025, 24050},
                         {"26-NOV-2026"})
EvalVix    == {MIN_VIX - 1, MIN_VIX, 1400, MAX_VIX, MAX_VIX + 1}

EvalInit ==
    /\ chain \in { <<c>> : c \in EvalChains }
    /\ vix \in EvalVix
    /\ now = 0
    /\ store = Missing
    /\ result = NotRun
    /\ out = Idle
    /\ hist = <<>>

Evaluate ==
    /\ result.kind = "none"
    /\ result' = build_iron_condor(chain[1], vix, get_pcr(chain[1].strikes))
    /\ UNCHANGED <<chain, vix, now, store, out, hist>>

\* save_position for the accepted Signal, then run_exit on the same snapshot
SaveAndRecheck ==
    /\ result.kind = "signal"
    /\ out.mode = "idle"
    /\ \E t \in LiveTimes :
        LET r == run_exit(save_position(store, result.signal[1], chain[1].expiry), chain, t)
        IN  /\ store' = r.store
            /\ out' = r.out
            /\ now' = t
    /\ UNCHANGED <<chain, vix, result, hist>>

EvalNext == Evaluate \/ SaveAndRecheck

SpecEval == EvalInit /\ [][EvalNext]_vars

-----------------------------------------------------------------------------
(* find_max_pain on its own *)

MaxOI == 2

OiStrikes == {23900, 24000, 24050, 24150}

OiQuotes == { [ce_ltp |-> 0, pe_ltp |-> 0, ce_oi |-> a, pe_oi |-> b] : a, b \in 0..MaxOI }

OiLadders == { Ascending(S) : S \in (SUBSET OiStrikes) \ {{}} }

OiChains == ChainsOver(OiLadders, OiQuotes, {24000}, {"26-NOV-2026"})

OiInit ==
    /\ chain \in { <<c>> : c \in OiChains }
    /\ vix = 0
    /\ now = 0
    /\ store = Missing
    /\ result = NotRun
    /\ out = Idle
    /\ hist = <<>>

FindMaxPain ==
    /\ result.kind = "none"
    /\ result' = [kind |-> "max_pain", reason |-> "", signal |-> <<>>,
                  value |-> find_max_pain(chain[1].strikes)]
    /\ UNCHANGED <<chain, vix, now, store, out, hist>>

OiNext == FindMaxPain

SpecOI == OiInit /\ [][OiNext]_vars

-----------------------------------------------------------------------------
(* The position store on its own: any sequence of save, load and clear *)

MaxCalls == 4

StoreChains == ChainsOver(LiveLadders, {LoQuote}, LiveSpots, {"26-NOV-2026"})
                   \cup ChainsOver(LiveLadders, {HiQuote}, LiveSpots, {"03-DEC-2026"})

\* Signals build_iron_condor accepts, as run_entry passes them to save_position
StoreSignals ==
    { r.signal[1] : r \in { x \in { build_iron_condor(c, 1400, get_pcr(c.strikes)) : c \in StoreChains } :
                              x.kind = "signal" } }

StoreInit ==
    /\ chain = <<>>
    /\ vix = 0
    /\ now = 0
    /\ store \in InitialSlots
    /\ result = NotRun
    /\ out = Idle
    /\ hist = <<>>

\* value: the Signal handed to save_position, what load_position returned
Call(op, raised, value) == [op |-> op, raised |-> raised, value |-> value]

SavePosition ==
    /\ Len(hist) < MaxCalls
    /\ \E sig \in StoreSignals :
        /\ store' = save_position(store, sig, sig.expiry)
        /\ hist' = Append(hist, Call("save", "", <<sig>>))
    /\ UNCHANGED <<chain, vix, now, result, out>>

LoadPosition ==
    /\ Len(hist) < MaxCalls
    /\ LET ld == load_position(store)
       IN  hist' = Append(hist, Call("load", ld.raised, ld.value))
    /\ UNCHANGED <<chain, vix, now, store, result, out>>

ClearPosition ==
    /\ Len(hist) < MaxCalls
    /\ LET cl == clear_position(store)
       IN  /\ store' = cl.store
           /\ hist' = Append(hist, Call("clear", cl.raised, <<>>))
    /\ UNCHANGED <<chain, vix, now, result, out>>

StoreNext == SavePosition \/ LoadPosition \/ ClearPosition

SpecStore == StoreInit /\ [][StoreNext]_vars

-----------------------------------------------------------------------------
(* score_signal on its own, on both sides of each threshold *)

ScoreVix      == {999, 1000, 1199, 1200, 1600, 1601, 1800, 1801}
ScorePcr      == {69, 70, 89, 90, 130, 131, 150, 151}
ScorePremiums == {3999, 4000, 5499, 5500, 7999, 8000}
ScoreStrikes  == {23950, 24000, 24050}

ScoreArgs ==
    [v : ScoreVix, pcr : ScorePcr, net_premium : ScorePremiums,
     ce_wall : ScoreStrikes, pe_wall : ScoreStrikes, sell_ce : {24000}, sell_pe : {24000}]

ScoreInit ==
    /\ chain = <<>>
    /\ vix = 0
    /\ now = 0
    /\ store = Missing
    /\ result = NotRun
    /\ out = Idle
    /\ hist = <<>>

ScoreSignal ==
    /\ result.kind = "none"
    /\ \E a \in ScoreArgs :
          result' = [kind |-> "score", reason |-> "", signal |-> <<>>, args |-> a,
                     value |-> score_signal(a.v, a.pcr, a.net_premium, a.ce_wall,
                                            a.pe_wall, a.sell_ce, a.sell_pe)]
    /\ UNCHANGED <<chain, vix, now, store, out, hist>>

ScoreNext == ScoreSignal

SpecScore == ScoreInit /\ [][ScoreNext]_vars

-----------------------------------------------------------------------------
(* Properties *)

TheChain   == chain[1]
TheStrikes == chain[1].strikes
TheSignal  == result.signal[1]

\* C1: whatever the snapshot and the put-call ratio, a volatility above 18 or
\* below 10 makes build_iron_condor return a skip (no Signal, a non-empty
\* reason), and at exactly 10 and at exactly 18 the volatility gate does not
\* reject.
C1_VolatilityGate ==
    result.kind # "none" =>
        /\ (vix > 1800 \/ vix < 1000) =>
              (result.kind = "skip" /\ result.signal = <<>> /\ result.reason # "")
        /\ (vix = 1000 \/ vix = 1800) =>
              result.reason \notin {"vix_too_high", "vix_too_low"}

C1_Witness ==
    /\ vix > 1800
    /\ Len(TheStrikes) = 5
    /\ result.kind = "skip"
    /\ result.reason = "vix_too_high"

\* C2: the exit check decides by first match: at or after 15:15 the time-based
\* exit whatever the premium; otherwise target hit when the current premium is
\* at or below target_exit; otherwise stop loss hit when it is at or above
\* stop_loss; otherwise Hold (no exit reason, nothing sent).
ExitDecided == out.mode = "exit" /\ out.log = "premium_now" /\ out.raised = ""

C2_ExitPriority ==
    ExitDecided =>
        LET pos == result.value[1]
            cur == out.current_premium
        IN  /\ now >= 915 => out.exit_reason = "time_based_exit"
            /\ (now < 915 /\ cur <= pos.target_exit) => out.exit_reason = "target_hit"
            /\ (now < 915 /\ cur > pos.target_exit /\ cur >= pos.stop_loss) =>
                  out.exit_reason = "stop_loss_hit"
            /\ (now < 915 /\ cur > pos.target_exit /\ cur < pos.stop_loss) =>
                  (out.exit_reason = "" /\ out.events = <<>>)
            /\ out.exit_reason # "" =>
                  (Len(out.events) = 1 /\ out.events[1].reason = out.exit_reason)

C2_Witness ==
    /\ ExitDecided
    /\ now >= 915
    /\ out.current_premium <= result.value[1].target_exit
    /\ out.exit_reason = "time_based_exit"

\* C3: an exit check that finds the position slot missing or holding something
\* that is not a valid record raises nothing and reports "no open position".
ValidRecord(st) == st.kind = "json" /\ DOMAIN st.doc = PositionKeys

C3_CorruptSlotIsAbsent ==
    (out.mode = "exit" /\ out.events = <<>> /\ ~ValidRecord(store)) =>
        (out.raised = "" /\ out.log = "no_open_position")

\* C4: with the volatility in range, a snapshot whose ladder is empty or has
\* fewer than 2 strikes on either side of the ATM strike gives a skip, never
\* an error.
StrikeSet == { TheStrikes[i].strike : i \in 1..Len(TheStrikes) }

IsAtm(a) ==
    /\ a \in StrikeSet
    /\ \A k \in StrikeSet : Abs(k - TheChain.spot) >= Abs(a - TheChain.spot)
    /\ \A k \in StrikeSet : Abs(k - TheChain.spot) = Abs(a - TheChain.spot) => k >= a

TooFewAround ==
    \/ TheStrikes = <<>>
    \/ \E a \in StrikeSet :
          /\ IsAtm(a)
          /\ \/ Cardinality({ k \in StrikeSet : k < a }) < 2
             \/ Cardinality({ k \in StrikeSet : k > a }) < 2

C4_MalformedIsSkip ==
    (result.kind # "none" /\ vix >= 1000 /\ vix <= 1800 /\ TooFewAround) =>
        (result.kind = "skip" /\ result.reason # "")

\* C5: every invocation of the entry path or of the exit path that starts
\* from a slot that is missing or holds a valid position ends with exactly one
\* outcome handed over (a notification, a log line or printed line saying what
\* was decided, or an exception), never with nothing at all.
Silent(o) == o.events = <<>> /\ o.log = "" /\ o.raised = ""

C5_NeverSilent ==
    (out.mode \in {"entry", "dry_run", "exit"} /\ (ValidRecord(store) \/ store = Missing)) =>
        (~Silent(out) /\ Len(out.events) <= 1)

NearestStep(x, b) ==
    /\ b % 50 = 0
    /\ Abs(b - x) <= 25
    /\ Abs(b - x) = 25 => b % 100 = 0

Rechecked == result.kind = "signal" /\ out.mode = "exit"

C7_RoundTrip ==
    Rechecked =>
        /\ out.raised = ""
        /\ out.log = "premium_now"
        /\ out.current_premium = TheSignal.net_premium

C7_Witness ==
    /\ Rechecked
    /\ TheSignal.buy_ce_strike \notin StrikeSet
    /\ TheSignal.buy_pe_strike \in StrikeSet
    /\ TheSignal.buy_pe_prem > 0
    /\ out.current_premium = TheSignal.net_premium

\* C8: find_max_pain returns a strike of the ladder that no other strike
\* beats on aggregate loss, and the lowest strike among those that share the
\* minimum.
RECURSIVE AggregateLoss(_, _)
AggregateLoss(I, t) ==
    IF I = {} THEN 0
    ELSE LET i == CHOOSE j \in I : TRUE
             q == TheStrikes[i]
         IN  (IF t > q.strike THEN (t - q.strike) * q.ce_oi ELSE 0)
             + (IF q.strike > t THEN (q.strike - t) * q.pe_oi ELSE 0)
             + AggregateLoss(I \ {i}, t)

Loss(t) == AggregateLoss(1..Len(TheStrikes), t)

C8_MaxPain ==
    result.kind = "max_pain" =>
        /\ result.value \in StrikeSet
        /\ \A k \in StrikeSet : Loss(k) >= Loss(result.value)
        /\ \A k \in StrikeSet : Loss(k) = Loss(result.value) => k >= result.value

C8_Witness ==
    /\ result.kind = "max_pain"
    /\ Len(TheStrikes) = 4
    /\ result.value = TheStrikes[2].strike
    /\ Loss(TheStrikes[3].strike) = Loss(result.value)
    /\ Loss(TheStrikes[1].strike) > Loss(result.value)
    /\ Loss(result.value) > 0

\* C9: clear_position never raises, whatever the slot holds and however often
\* it is called in a row, and a load_position that follows it returns absent.
C9_ClearIdempotent ==
    \A i \in 1..Len(hist) :
        hist[i].op = "clear" =>
            /\ hist[i].raised = ""
            /\ i = Len(hist) => store = Missing
            /\ (i < Len(hist) /\ hist[i + 1].op = "load") =>
                  (hist[i + 1].raised = "" /\ hist[i + 1].value = <<>>)

C9_Witness ==
    /\ Len(hist) = 4
    /\ hist[1].op = "clear" /\ hist[2].op = "load"
    /\ hist[3].op = "clear" /\ hist[4].op = "load"
    /\ hist[2].value = <<>> /\ hist[4].value = <<>>
    /\ hist[3].raised = ""

\* C10: the slot holds one position at most: a load that comes after a save,
\* with no clear in between, returns exactly the eight fields of the most
\* recent save, whatever the slot held before and however many saves came
\* earlier; after a clear it returns absent.
LastWrite(i) ==
    LET W == { j \in 1..(i - 1) : hist[j].op \in {"save", "clear"} }
    IN  IF W = {} THEN 0 ELSE CHOOSE j \in W : \A k \in W : k <= j

C10_LastSaveWins ==
    \A i \in 1..Len(hist) :
        (hist[i].op = "load" /\ LastWrite(i) # 0) =>
            LET w == hist[LastWrite(i)]
            IN  /\ hist[i].raised = ""
                /\ w.op = "clear" => hist[i].value = <<>>
                /\ w.op = "save" =>
                      /\ Len(hist[i].value) = 1
                      /\ LET d   == hist[i].value[1]
                             sig == w.value[1]
                         IN  /\ DOMAIN d = {"sell_ce_strike", "buy_ce_strike",
                                            "sell_pe_strike", "buy_pe_strike",
                                            "net_premium", "target_exit", "stop_loss",
                                            "expiry"}
                             /\ d.sell_ce_strike = sig.sell_ce_strike
                             /\ d.buy_ce_strike = sig.buy_ce_strike
                             /\ d.sell_pe_strike = sig.sell_pe_strike
                             /\ d.buy_pe_strike = sig.buy_pe_strike
                             /\ d.net_premium = sig.net_premium
                             /\ d.target_exit = sig.target_exit
                             /\ d.stop_loss = sig.stop_loss
                             /\ d.expiry = sig.expiry

C10_Witness ==
    /\ Len(hist) = 3
    /\ hist[1].op = "save" /\ hist[2].op = "save" /\ hist[3].op = "load"
    /\ hist[1].value[1].sell_ce_strike # hist[2].value[1].sell_ce_strike
    /\ hist[1].value[1].expiry # hist[2].value[1].expiry
    /\ hist[3].value[1].sell_ce_strike = hist[2].value[1].sell_ce_strike
    /\ hist[3].value[1].expiry = hist[2].value[1].expiry

\* The legs and premiums recomputed from the snapshot, for a ladder that is
\* not empty: the ATM strike (the lowest of the nearest strikes), its
\* neighbours in the ladder, the multiples of 50 nearest to 100 beyond them.
AtmStrike == CHOOSE a \in StrikeSet : IsAtm(a)
NextAbove(a) == CHOOSE k \in StrikeSet : k > a /\ \A j \in StrikeSet : j > a => j >= k
NextBelow(a) == CHOOSE k \in StrikeSet : k < a /\ \A j \in StrikeSet : j < a => j <= k
NearestMultiple(x) == CHOOSE b \in (x - 25)..(x + 25) : NearestStep(x, b)
QuoteOf(k) == TheStrikes[CHOOSE i \in 1..Len(TheStrikes) : TheStrikes[i].strike = k]
CallPrice(k) == IF k \in StrikeSet THEN QuoteOf(k).ce_ltp ELSE 0
PutPrice(k) == IF k \in StrikeSet THEN QuoteOf(k).pe_ltp ELSE 0

SoldCall == NextAbove(AtmStrike)
SoldPut == NextBelow(AtmStrike)
BoughtCall == NearestMultiple(SoldCall + 100)
BoughtPut == NearestMultiple(SoldPut - 100)
NetCredit ==
    (CallPrice(SoldCall) - CallPrice(BoughtCall)) + (PutPrice(SoldPut) - PutPrice(BoughtPut))

FirstFailingGate ==
    IF vix > 1800 THEN "vix_too_high"
    ELSE IF vix < 1000 THEN "vix_too_low"
    ELSE IF TooFewAround THEN "not_enough_strikes"
    ELSE IF CallPrice(SoldCall) < 1500 THEN "ce_leg_premium_too_low"
    ELSE IF PutPrice(SoldPut) < 1500 THEN "pe_leg_premium_too_low"
    ELSE IF NetCredit < 4000 THEN "net_premium_too_low"
    ELSE ""

ScenarioPremiums ==
    /\ TheSignal.sell_ce_prem = 4500 /\ TheSignal.buy_ce_prem = 1000
    /\ TheSignal.sell_pe_prem = 4800 /\ TheSignal.buy_pe_prem = 1200

C12_RiskReward ==
    result.kind = "signal" =>
        LET n == TheSignal.net_premium
        IN  /\ n = (TheSignal.sell_ce_prem - TheSignal.buy_ce_prem)
                   + (TheSignal.sell_pe_prem - TheSignal.buy_pe_prem)
            /\ TheSignal.max_profit = n * 50
            /\ TheSignal.max_loss = (100 * 100 - n) * 50
            /\ TheSignal.stop_loss = 2 * n
            /\ 2 * Abs(100 * TheSignal.target_exit - 40 * n) < 100
            /\ ScenarioPremiums =>
                  /\ n = 7100
                  /\ TheSignal.target_exit = 2840
                  /\ TheSignal.stop_loss = 14200
                  /\ TheSignal.max_profit = 355000
                  /\ TheSignal.max_loss = 145000

C12_Witness ==
    /\ result.kind = "signal"
    /\ ScenarioPremiums
    /\ TheSignal.target_exit = 2840
    /\ TheSignal.max_loss = 145000

\* a Signal whose target_exit is not a whole number of hundredths before rounding
C12_RoundedUp ==
    /\ result.kind = "signal"
    /\ (40 * TheSignal.net_premium) % 100 > 50
    /\ 100 * TheSignal.target_exit > 40 * TheSignal.net_premium

\* C13: score_signal returns a whole score in 0..100 that is the sum of the
\* volatility (30/15/0), put-call ratio (20/10/0), premium (25/20/10/0) and
\* structure (+15 sold call <= call wall, +10 sold put >= put wall) points,
\* and the grade is A exactly when score >= 70, B exactly when 50 <= score <
\* 70, and C otherwise.
VolatilityPoints(v) ==
    IF v \in 1200..1600 THEN 30 ELSE IF v \in (1000..1199) \cup (1601..1800) THEN 15 ELSE 0

RatioPoints(p) ==
    IF p \in 90..130 THEN 20 ELSE IF p \in (70..89) \cup (131..150) THEN 10 ELSE 0

RichnessPoints(n) ==
    IF n >= 8000 THEN 25 ELSE IF n >= 5500 THEN 20 ELSE IF n >= 4000 THEN 10 ELSE 0

StructurePoints(a) ==
    (IF a.sell_ce <= a.ce_wall THEN 15 ELSE 0) + (IF a.sell_pe >= a.pe_wall THEN 10 ELSE 0)

C13_ScoreAndGrade ==
    result.kind = "score" =>
        LET a == result.args
            r == result.value
        IN  /\ r.score \in 0..100
            /\ r.score = VolatilityPoints(a.v) + RatioPoints(a.pcr)
                         + RichnessPoints(a.net_premium) + StructurePoints(a)
            /\ r.grade \in {"A", "B", "C"}
            /\ r.grade = "A" <=> r.score >= 70
            /\ r.grade = "B" <=> (50 <= r.score /\ r.score < 70)

C13_Witness ==
    /\ result.kind = "score"
    /\ result.args.v = 1600
    /\ result.args.pcr = 130
    /\ result.args.net_premium = 8000
    /\ result.value.score = 100
    /\ result.value.grade = "A"

\* C14: a live (not dry-run) entry run that obtained a snapshot either
\* accepts a Signal, and then hands over one entry event carrying it and
\* leaves in the store exactly that Signal's four strikes, net_premium,
\* target_exit, stop_loss and expiry, or skips, and then hands over one skip
\* event carrying the reason and leaves the store as it was.
HoldsSignal(st, sig) ==
    /\ st.kind = "json"
    /\ DOMAIN st.doc = {"sell_ce_strike", "buy_ce_strike", "sell_pe_strike", "buy_pe_strike",
                        "net_premium", "target_exit", "stop_loss", "expiry"}
    /\ st.doc.sell_ce_strike = sig.sell_ce_strike
    /\ st.doc.buy_ce_strike = sig.buy_ce_strike
    /\ st.doc.sell_pe_strike = sig.sell_pe_strike
    /\ st.doc.buy_pe_strike = sig.buy_pe_strike
    /\ st.doc.net_premium = sig.net_premium
    /\ st.doc.target_exit = sig.target_exit
    /\ st.doc.stop_loss = sig.stop_loss
    /\ st.doc.expiry = sig.expiry

EntryStep ==
    /\ out'.mode = "entry"
    /\ out'.ping
    /\ result'.kind \in {"signal", "skip"}

C14_EntryPersistsOrSkips ==
    [][ EntryStep =>
          /\ Len(out'.events) = 1
          /\ out'.raised = ""
          /\ result'.kind = "signal" =>
                /\ out'.events[1].type = "entry"
                /\ out'.events[1].signal = result'.signal[1]
                /\ HoldsSignal(store', result'.signal[1])
          /\ result'.kind = "skip" =>
                /\ out'.events[1].type = "skip"
                /\ out'.events[1].reason = result'.reason
                /\ result'.reason # ""
                /\ store' = store ]_vars

\* a skipping entry run that left an earlier position in the store
C14_Witness ==
    /\ out.mode = "entry"
    /\ Len(out.events) = 1
    /\ out.events[1].type = "skip"
    /\ ValidRecord(store)

\* an accepting entry run that replaced what the store held
C14_Accepted ==
    /\ out.mode = "entry"
    /\ Len(out.events) = 1
    /\ out.events[1].type = "entry"
    /\ HoldsSignal(store, result.signal[1])

\* C15: an exit check that found a stored position and obtained a snapshot
\* clears the store exactly when it decided to exit, handing over one exit
\* event with the current premium, the reason and the position; when it
\* decided to hold it hands over nothing and leaves the stored position as it
\* was.
ExitStep ==
    /\ ValidRecord(store)
    /\ out'.mode = "exit"
    /\ out'.log = "premium_now"

C15_ClearIffExit ==
    [][ ExitStep =>
          /\ out'.raised = ""
          /\ out'.exit_reason # "" =>
                /\ out'.events = <<[type |-> "exit", reason |-> out'.exit_reason,
                                    current_premium |-> out'.current_premium,
                                    position |-> store.doc]>>
                /\ store' = Missing
          /\ out'.exit_reason = "" =>
                /\ out'.events = <<>>
                /\ store' = store
          /\ store' = Missing <=> out'.exit_reason # "" ]_vars

\* a check before the cutoff that decided to hold: the position is still stored
C15_Witness ==
    /\ out.mode = "exit"
    /\ out.log = "premium_now"
    /\ out.exit_reason = ""
    /\ now < 915
    /\ out.events = <<>>
    /\ ValidRecord(store)
    /\ store.doc = result.value[1]

\* C16: for a snapshot that passes the volatility and strike-availability
\* gates the ATM strike is a ladder strike nearest to spot, the sold call is
\* the ladder's next strike above it and the sold put the next strike below
\* it, and each leg's premium is that side's last price at the leg's strike,
\* 0 for a strike the ladder does not have.
PassesFirstGates == vix >= 1000 /\ vix <= 1800 /\ ~TooFewAround

C16_LegSelection ==
    /\ result.kind = "signal" =>
          /\ PassesFirstGates
          /\ \E a \in StrikeSet :
                /\ \A k \in StrikeSet : Abs(k - TheChain.spot) >= Abs(a - TheChain.spot)
                /\ TheSignal.sell_ce_strike = NextAbove(a)
                /\ TheSignal.sell_pe_strike = NextBelow(a)
          /\ TheSignal.sell_ce_prem = CallPrice(TheSignal.sell_ce_strike)
          /\ TheSignal.buy_ce_prem = CallPrice(TheSignal.buy_ce_strike)
          /\ TheSignal.sell_pe_prem = PutPrice(TheSignal.sell_pe_strike)
          /\ TheSignal.buy_pe_prem = PutPrice(TheSignal.buy_pe_strike)
    /\ (result.kind # "none" /\ PassesFirstGates) =>
          /\ result.kind \in {"signal", "skip"}
          /\ result.reason = "ce_leg_premium_too_low" => CallPrice(SoldCall) < 1500
          /\ result.reason = "pe_leg_premium_too_low" =>
                (CallPrice(SoldCall) >= 1500 /\ PutPrice(SoldPut) < 1500)
          /\ result.reason \in {"", "ce_leg_premium_too_low", "pe_leg_premium_too_low",
                                "net_premium_too_low"}

\* sold strikes 25 and 50 points from the ATM strike, a bought call the ladder lacks
C16_Witness ==
    /\ result.kind = "signal"
    /\ TheSignal.sell_ce_strike - AtmStrike = 25
    /\ AtmStrike - TheSignal.sell_pe_strike = 50
    /\ TheSignal.buy_ce_strike \notin StrikeSet
    /\ TheSignal.buy_ce_prem = 0
    /\ TheSignal.buy_pe_strike \in StrikeSet
    /\ TheSignal.buy_pe_prem = 1200

\* C17: every accepted Signal has target_exit < net_premium < stop_loss, so
\* no premium is at once at or below the target and at or above the stop
\* loss, and an exit check before 15:15 on the snapshot the Signal was built
\* from decides to hold: nothing is handed over and the position stays stored.
C17_FreshPositionHolds ==
    /\ result.kind = "signal" =>
          /\ TheSignal.target_exit < TheSignal.net_premium
          /\ TheSignal.net_premium < TheSignal.stop_loss
          /\ \A cur \in {TheSignal.target_exit, TheSignal.net_premium, TheSignal.stop_loss} :
                ~(cur <= TheSignal.target_exit /\ cur >= TheSignal.stop_loss)
    /\ (Rechecked /\ now < 915) =>
          /\ out.exit_reason = ""
          /\ out.events = <<>>
          /\ HoldsSignal(store, TheSignal)

C17_Witness ==
    /\ Rechecked
    /\ now = 914
    /\ out.log = "premium_now"
    /\ out.exit_reason = ""
    /\ TheSignal.net_premium = 4497
    /\ store # Missing

\* C18: over any sequence of entry and exit runs, an exit event is handed
\* over only by an exit check that found a position stored, and the store is
\* empty right after it; a position comes into the store only through an
\* accepted entry, and an exit check on an empty store hands over nothing.
\* So every exit event follows an accepted entry with no other exit event in
\* between.
ExitEvent(o) == o.mode = "exit" /\ o.events # <<>>

AcceptedEntry(o) == o.mode = "entry" /\ Len(o.events) = 1 /\ o.events[1].type = "entry"

C18_ExitNeedsEntry ==
    [][ /\ ExitEvent(out') =>
              /\ ValidRecord(store)
              /\ Len(out'.events) = 1
              /\ out'.events[1].type = "exit"
              /\ out'.events[1].position = store.doc
              /\ store' = Missing
        /\ (ValidRecord(store') /\ store' # store) => AcceptedEntry(out')
        /\ (out'.mode = "exit" /\ store = Missing) =>
              (out'.events = <<>> /\ store' = Missing) ]_vars

\* an exit event: the position it reports is gone from the store
C18_Witness ==
    /\ ExitEvent(out)
    /\ out.events[1].type = "exit"
    /\ out.events[1].position = result.value[1]
    /\ out.events[1].reason \in {"target_hit", "stop_loss_hit"}
    /\ store = Missing

=============================================================================
